---- MODULE Spec2Model ----
(***************************************************************************)
(* Model of the parsing-and-aggregation pipeline of main.py:               *)
(*   parse_travel_data -> calculate_totals -> topup_needed ->               *)
(*   get_daily_totals -> build_table_string                                 *)
(*                                                                         *)
(* Representation choices.                                                 *)
(*  - A text (Python str) is a sequence of one-character strings, so that  *)
(*    strip(), replace(), the `in` substring test, strptime() and float()  *)
(*    are computed on the characters.                                      *)
(*  - A date label is a sequence of its whitespace-separated tokens         *)
(*    (weekday name, day digits, month abbreviation, year digits).          *)
(*  - A Python float amount is an exact integer number of hundredths;       *)
(*    binary rounding of float sums is not represented.                     *)
(*  - The document is the sequence of its date containers, each with the    *)
(*    xpath result lists the code reads from it.                            *)
(***************************************************************************)
EXTENDS Integers, Sequences, FiniteSets, TLC

VARIABLES tree, balance, last_monday, pc, travel_dict,
          total_top_up, total_fare_charged, topup_needed, daily_totals, rows

vars == <<tree, balance, last_monday, pc, travel_dict,
          total_top_up, total_fare_charged, topup_needed, daily_totals, rows>>

-----------------------------------------------------------------------------
(* Text primitives                                                         *)

DigitChars == <<"0", "1", "2", "3", "4", "5", "6", "7", "8", "9">>

IsDigit(c) == \E i \in 1..10 : DigitChars[i] = c

DigitVal(c) == (CHOOSE i \in 1..10 : DigitChars[i] = c) - 1

AllDigits(s) == \A i \in 1..Len(s) : IsDigit(s[i])

RECURSIVE ToNat(_)
ToNat(s) ==
  IF s = <<>> THEN 0
  ELSE 10 * ToNat(SubSeq(s, 1, Len(s) - 1)) + DigitVal(s[Len(s)])

RECURSIVE NatToText(_)
NatToText(n) ==
  IF n < 10 THEN <<DigitChars[n + 1]>>
  ELSE Append(NatToText(n \div 10), DigitChars[(n % 10) + 1])

RECURSIVE ZeroPad(_, _)
ZeroPad(s, width) == IF Len(s) >= width THEN s ELSE ZeroPad(<<"0">> \o s, width)

WhitespaceChars == {" ", "\t", "\n"}

RECURSIVE StripLeft(_)
StripLeft(s) ==
  IF s # <<>> /\ s[1] \in WhitespaceChars THEN StripLeft(Tail(s)) ELSE s

RECURSIVE StripRight(_)
StripRight(s) ==
  IF s # <<>> /\ s[Len(s)] \in WhitespaceChars
  THEN StripRight(SubSeq(s, 1, Len(s) - 1)) ELSE s

\* str.strip()
Strip(s) == StripRight(StripLeft(s))

\* str.replace(ch, "")
RemoveChar(s, ch) == SelectSeq(s, LAMBDA c : c # ch)

\* pat in s
Contains(s, pat) ==
  \E i \in 1..(Len(s) - Len(pat) + 1) : SubSeq(s, i, i + Len(pat) - 1) = pat

Abs(x) == IF x < 0 THEN -x ELSE x

\* float(s), for decimal literals [+-]digits[.digits] of at most two fraction
\* digits; the value is in hundredths.  Anything else is a ValueError.
ParseFloat(s) ==
  LET signed == s # <<>> /\ s[1] \in {"-", "+"}
      body == IF signed THEN Tail(s) ELSE s
      dots == {i \in 1..Len(body) : body[i] = "."}
      dot == IF dots = {} THEN Len(body) + 1 ELSE CHOOSE i \in dots : TRUE
      ip == SubSeq(body, 1, dot - 1)
      fp == SubSeq(body, dot + 1, Len(body))
      ok == /\ Cardinality(dots) <= 1
            /\ AllDigits(ip) /\ AllDigits(fp)
            /\ Len(ip) + Len(fp) >= 1
            /\ Len(fp) <= 2
      mag == 100 * ToNat(ip) + (IF Len(fp) = 1 THEN 10 * ToNat(fp) ELSE ToNat(fp))
  IN IF ok THEN [ok |-> TRUE, val |-> IF signed /\ s[1] = "-" THEN -mag ELSE mag]
     ELSE [ok |-> FALSE, val |-> 0]

\* f"{x:.2f}" of an amount in hundredths
Format2f(x) ==
  (IF x < 0 THEN <<"-">> ELSE <<>>)
    \o NatToText(Abs(x) \div 100) \o <<".">> \o ZeroPad(NatToText(Abs(x) % 100), 2)

-----------------------------------------------------------------------------
(* Calendar: datetime values, strptime and strftime                        *)

WeekdayNames ==
  <<"Monday", "Tuesday", "Wednesday", "Thursday", "Friday", "Saturday", "Sunday">>

MonthAbbrevs ==
  <<"Jan", "Feb", "Mar", "Apr", "May", "Jun", "Jul", "Aug", "Sep", "Oct", "Nov", "Dec">>

IndexOf(seq, x) == CHOOSE i \in 1..Len(seq) : seq[i] = x

InSeq(seq, x) == \E i \in 1..Len(seq) : seq[i] = x

IsLeap(y) == y % 4 = 0 /\ (y % 100 # 0 \/ y % 400 = 0)

DaysInMonth(y, m) ==
  IF m = 2 THEN (IF IsLeap(y) THEN 29 ELSE 28)
  ELSE IF m \in {4, 6, 9, 11} THEN 30 ELSE 31

RECURSIVE DaysBeforeMonth(_, _)
DaysBeforeMonth(y, m) ==
  IF m = 1 THEN 0 ELSE DaysBeforeMonth(y, m - 1) + DaysInMonth(y, m - 1)

DaysBeforeYear(y) ==
  (y - 1) * 365 + ((y - 1) \div 4) - ((y - 1) \div 100) + ((y - 1) \div 400)

\* datetime.toordinal()
ToOrdinal(d) == DaysBeforeYear(d.year) + DaysBeforeMonth(d.year, d.month) + d.day

\* datetime.weekday(): Monday is 0
Weekday(d) == (ToOrdinal(d) + 6) % 7

\* d1 < d2 and d1 >= d2 on datetimes at midnight
DateLT(d1, d2) ==
  \/ d1.year < d2.year
  \/ d1.year = d2.year /\ d1.month < d2.month
  \/ d1.year = d2.year /\ d1.month = d2.month /\ d1.day < d2.day

DateGE(d1, d2) == ~DateLT(d1, d2)

\* datetime.strptime(label, "%A %d %b %Y") on the tokens of the label.  The
\* weekday name must be a weekday name but is not checked against the date.
StrptimeDate(tokens) ==
  LET wellFormed ==
        /\ Len(tokens) = 4
        /\ InSeq(WeekdayNames, tokens[1])
        /\ Len(tokens[2]) \in 1..2 /\ AllDigits(tokens[2])
        /\ InSeq(MonthAbbrevs, tokens[3])
        /\ Len(tokens[4]) = 4 /\ AllDigits(tokens[4])
      y == ToNat(tokens[4])
      m == IndexOf(MonthAbbrevs, tokens[3])
      dd == ToNat(tokens[2])
  IN IF wellFormed /\ y >= 1 /\ dd >= 1 /\ dd <= DaysInMonth(y, m)
     THEN [ok |-> TRUE, val |-> [year |-> y, month |-> m, day |-> dd]]
     ELSE [ok |-> FALSE, val |-> [year |-> 1, month |-> 1, day |-> 1]]

\* date.strftime("%A %d %b %Y"), as tokens
StrftimeDate(d) ==
  << WeekdayNames[Weekday(d) + 1],
     ZeroPad(NatToText(d.day), 2),
     MonthAbbrevs[d.month],
     ZeroPad(NatToText(d.year), 4) >>

\* date.strftime("%A")
StrftimeWeekday(d) == WeekdayNames[Weekday(d) + 1]

\* datetime.strptime(text, "%H:%M"): one or two digits each, hour 0..23,
\* minute 0..59; the value is the minute of the day.
StrptimeTime(s) ==
  LET colons == {i \in 1..Len(s) : s[i] = ":"}
      c == IF colons = {} THEN Len(s) + 1 ELSE CHOOSE i \in colons : TRUE
      hh == SubSeq(s, 1, c - 1)
      mm == SubSeq(s, c + 1, Len(s))
      ok == /\ Cardinality(colons) = 1
            /\ Len(hh) \in 1..2 /\ AllDigits(hh)
            /\ Len(mm) \in 1..2 /\ AllDigits(mm)
            /\ ToNat(hh) <= 23 /\ ToNat(mm) <= 59
  IN IF ok THEN [ok |-> TRUE, val |-> 60 * ToNat(hh) + ToNat(mm)]
     ELSE [ok |-> FALSE, val |-> 0]

-----------------------------------------------------------------------------
(* parse_travel_data                                                       *)

DefaultTime == <<"0", "0", ":", "0", "0">>

Unknown == <<"U", "n", "k", "n", "o", "w", "n">>

TopUpNeedle == <<"T", "o", "p", " ", "u", "p">>

TopUp == <<"T", "o", "p", " ", "U", "p">>

OpalTravelApp == <<"O", "p", "a", "l", " ", "T", "r", "a", "v", "e", "l", " ", "A", "p", "p">>

\* fault: a container without a usable label is filed under datetime.min
ContainerDateOrMin(date_container) ==
  IF date_container.date_element = <<>>
  THEN [ok |-> TRUE, val |-> [year |-> 1, month |-> 1, day |-> 1]]
  ELSE [ok |-> TRUE, val |-> StrptimeDate(date_container.date_element[1]).val]

\* lines 105-112: the date of a container, or no date (the container is skipped)
ContainerDate(date_container) ==
  IF date_container.date_element = <<>>
  THEN [ok |-> FALSE, val |-> [year |-> 1, month |-> 1, day |-> 1]]
  ELSE StrptimeDate(date_container.date_element[1])

\* fault: the destination of a top-up is left as extracted
NormalizeOriginOnly(start_point, end_point) ==
  IF Contains(start_point, TopUpNeedle)
  THEN <<TopUp, end_point>>
  ELSE <<start_point, end_point>>

\* lines 134-136
NormalizeTopUp(start_point, end_point) ==
  IF Contains(start_point, TopUpNeedle)
  THEN <<TopUp, OpalTravelApp>>
  ELSE <<start_point, end_point>>

\* line 131: the fare, or the ValueError of float()
ExtractFare(fare_element) ==
  IF fare_element # <<>>
  THEN ParseFloat(RemoveChar(Strip(fare_element[1]), "$"))
  ELSE [ok |-> TRUE, val |-> 0]

\* lines 119-143: one activity node to one activity record
ExtractActivity(activity) ==
  LET time_str == IF activity.time_element # <<>>
                  THEN Strip(activity.time_element[1]) ELSE DefaultTime
      start_point == IF activity.start_point_element # <<>>
                     THEN Strip(activity.start_point_element[1]) ELSE Unknown
      end_point == IF activity.end_point_element # <<>>
                   THEN Strip(activity.end_point_element[1]) ELSE Unknown
      fare == ExtractFare(activity.fare_element)
      norm == NormalizeTopUp(start_point, end_point)
  IN [raised |-> ~fare.ok,
      activity |-> [time |-> time_str, start_point |-> norm[1],
                    end_point |-> norm[2], fare |-> fare.val]]

\* line 146: the sort key
TimeKey(x) == StrptimeTime(x["time"]).val

\* fault: an unstable sort, x goes before the elements of equal key
InsertBeforeEqualKeys(sorted, x) ==
  LET n == Cardinality({i \in 1..Len(sorted) : sorted[i][1] < x[1]})
  IN SubSeq(sorted, 1, n) \o <<x>> \o SubSeq(sorted, n + 1, Len(sorted))

\* list.sort is stable: the pair x of a key and an element goes behind every
\* pair whose key is not greater
InsertByKey(sorted, x) ==
  LET n == Cardinality({i \in 1..Len(sorted) : sorted[i][1] <= x[1]})
  IN SubSeq(sorted, 1, n) \o <<x>> \o SubSeq(sorted, n + 1, Len(sorted))

RECURSIVE StableSort(_)
StableSort(keyed) ==
  IF keyed = <<>> THEN <<>>
  ELSE InsertByKey(StableSort(SubSeq(keyed, 1, Len(keyed) - 1)), keyed[Len(keyed)])

\* line 146: the key of every element is computed first, and a time that is
\* not %H:%M raises; the elements are then sorted by their keys
SortByTime(acts) ==
  LET keys == [i \in 1..Len(acts) |-> StrptimeTime(acts[i]["time"])]
  IN IF \E i \in 1..Len(acts) : ~keys[i].ok
     THEN [raised |-> TRUE, acts |-> acts]
     ELSE LET sorted == StableSort([i \in 1..Len(acts) |-> <<keys[i].val, acts[i]>>])
          IN [raised |-> FALSE, acts |-> [i \in 1..Len(acts) |-> sorted[i][2]]]

\* lines 117-143: the activities of a container, in document order
ExtractAll(activities) ==
  LET ex == [i \in 1..Len(activities) |-> ExtractActivity(activities[i])]
  IN [raised |-> \E i \in 1..Len(activities) : ex[i].raised,
      acts |-> [i \in 1..Len(activities) |-> ex[i].activity]]

\* A dict is the sequence of its <<key, value>> items, in insertion order.
DictKeys(dict) == {dict[i][1] : i \in 1..Len(dict)}

\* dict[key]
DictGet(dict, key) == dict[CHOOSE i \in 1..Len(dict) : dict[i][1] = key][2]

\* dict[key] = value: a key already present keeps its place
DictSet(dict, key, value) ==
  IF key \in DictKeys(dict)
  THEN LET i == CHOOSE j \in 1..Len(dict) : dict[j][1] = key
       IN SubSeq(dict, 1, i - 1) \o << <<key, value>> >> \o SubSeq(dict, i + 1, Len(dict))
  ELSE Append(dict, <<key, value>>)

\* lines 104-146: the loop over the date containers from container i on
RECURSIVE ParseContainers(_, _, _)
ParseContainers(containers, i, travel_data) ==
  IF i > Len(containers) THEN [raised |-> FALSE, travel_data |-> travel_data]
  ELSE
    LET date == ContainerDate(containers[i])
    IN IF ~date.ok THEN ParseContainers(containers, i + 1, travel_data)
       ELSE
         LET fresh == DictSet(travel_data, date.val, <<>>)      \* line 114
             ex == ExtractAll(containers[i].activities)
             appended == DictGet(fresh, date.val) \o ex.acts    \* line 138
             sorted == SortByTime(appended)                     \* line 146
         IN IF ex.raised \/ sorted.raised
            THEN [raised |-> TRUE, travel_data |-> fresh]
            ELSE ParseContainers(containers, i + 1,
                                 DictSet(fresh, date.val, sorted.acts))

\* fault: reverse=True left out
RECURSIVE SortedAscending(_)
SortedAscending(dates) ==
  IF dates = {} THEN <<>>
  ELSE LET earliest == CHOOSE d \in dates : \A e \in dates : ~DateLT(e, d)
       IN <<earliest>> \o SortedAscending(dates \ {earliest})

\* line 151: sorted(keys, reverse=True)
RECURSIVE SortedDescending(_)
SortedDescending(dates) ==
  IF dates = {} THEN <<>>
  ELSE LET latest == CHOOSE d \in dates : \A e \in dates : ~DateLT(d, e)
       IN <<latest>> \o SortedDescending(dates \ {latest})

\* lines 149-152: OrderedDict of the (key, value) pairs, from date j on
RECURSIVE OrderedDictFrom(_, _, _, _)
OrderedDictFrom(travel_data, dates, j, acc) ==
  IF j > Len(dates) THEN acc
  ELSE OrderedDictFrom(travel_data, dates, j + 1,
         DictSet(acc, StrftimeDate(dates[j]), DictGet(travel_data, dates[j])))

SortedTravelData(travel_data) ==
  OrderedDictFrom(travel_data, SortedDescending(DictKeys(travel_data)), 1, <<>>)

\* lines 95-153: the ledger, or the exception that leaves parse_travel_data
ParseTravelDataOf(containers) ==
  LET r == ParseContainers(containers, 1, <<>>)
  IN IF r.raised THEN [raised |-> TRUE, ledger |-> <<>>]
     ELSE [raised |-> FALSE, ledger |-> SortedTravelData(r.travel_data)]

-----------------------------------------------------------------------------
(* calculate_totals, topup_needed, get_daily_totals, build_table_string    *)

TargetFloor == 5000

\* fault: > for >=, the week start itself is left out
TotalsIncludesAfter(date_obj, monday) == DateLT(monday, date_obj)

\* line 167
TotalsIncludes(date_obj, monday) == DateGE(date_obj, monday)

\* lines 168-172: the activities of one date, from activity j on
RECURSIVE TotalsOfActivities(_, _, _)
TotalsOfActivities(activities, j, acc) ==
  IF j > Len(activities) THEN acc
  ELSE TotalsOfActivities(activities, j + 1,
         IF activities[j].start_point = TopUp
         THEN [acc EXCEPT !.top_up = @ + activities[j].fare]
         ELSE [acc EXCEPT !.fare_charged = @ + activities[j].fare])

\* lines 163-173: the loop over travel_dict.items() from entry i on
RECURSIVE CalculateTotalsFrom(_, _, _, _)
CalculateTotalsFrom(dict, monday, i, acc) ==
  IF i > Len(dict) THEN acc
  ELSE
    LET date_obj == StrptimeDate(dict[i][1])
    IN IF ~date_obj.ok THEN [acc EXCEPT !.raised = TRUE]
       ELSE IF TotalsIncludes(date_obj.val, monday)
       THEN CalculateTotalsFrom(dict, monday, i + 1,
                                TotalsOfActivities(dict[i][2], 1, acc))
       ELSE CalculateTotalsFrom(dict, monday, i + 1, acc)

CalculateTotalsOf(dict, monday) ==
  CalculateTotalsFrom(dict, monday, 1,
                      [raised |-> FALSE, top_up |-> 0, fare_charged |-> 0])

\* fault: the floor at zero left out
TopupNeededUnfloored(bal, fare_charged) == TargetFloor - (bal - fare_charged)

\* lines 266-269
TopupNeededOf(bal, fare_charged) ==
  LET needed == TargetFloor - (bal - fare_charged)
  IN IF needed < 0 THEN 0 ELSE needed

\* fault: <= for <, the week start itself is skipped
DailySkipsThroughMonday(date_obj, monday) == ~DateLT(monday, date_obj)

\* line 192
DailySkips(date_obj, monday) == DateLT(date_obj, monday)

\* fault: abs() left out
FareSpendSigned(fare) == fare

\* line 203
FareSpend(fare) == Abs(fare)

\* lines 198-203: the activities of one date, from activity j on
RECURSIVE DayTotalsOfActivities(_, _, _)
DayTotalsOfActivities(activities, j, acc) ==
  IF j > Len(activities) THEN acc
  ELSE DayTotalsOfActivities(activities, j + 1,
         IF activities[j].start_point = TopUp
         THEN [acc EXCEPT !.topup = @ + activities[j].fare]
         ELSE [acc EXCEPT !.fares = @ + FareSpend(activities[j].fare)])

\* lines 187-204: the loop over travel_dict.items() from entry i on
RECURSIVE DailyTotalsFrom(_, _, _, _)
DailyTotalsFrom(dict, monday, i, acc) ==
  IF i > Len(dict) THEN [raised |-> FALSE, totals |-> acc]
  ELSE
    LET date_obj == StrptimeDate(dict[i][1])
    IN IF ~date_obj.ok THEN [raised |-> TRUE, totals |-> acc]
       ELSE IF DailySkips(date_obj.val, monday)
       THEN DailyTotalsFrom(dict, monday, i + 1, acc)
       ELSE
         LET weekday == StrftimeWeekday(date_obj.val)
             opened == IF weekday \in DictKeys(acc) THEN acc
                       ELSE DictSet(acc, weekday, [topup |-> 0, fares |-> 0])
         IN DailyTotalsFrom(dict, monday, i + 1,
              DictSet(opened, weekday,
                      DayTotalsOfActivities(dict[i][2], 1,
                                            DictGet(opened, weekday))))

GetDailyTotalsOf(dict, monday) == DailyTotalsFrom(dict, monday, 1, <<>>)

\* lines 229-235: the loop over weekdays_order from day k on
RECURSIVE TableRowsFrom(_, _, _)
TableRowsFrom(totals, k, acc) ==
  IF k > Len(WeekdayNames) THEN acc
  ELSE
    LET day == WeekdayNames[k]
    IN IF day \in DictKeys(totals)
       THEN LET topup == DictGet(totals, day).topup
                fares == DictGet(totals, day).fares
            IN TableRowsFrom(totals, k + 1,
                 [rows |-> Append(acc.rows, <<day, Format2f(topup), Format2f(fares)>>),
                  total_topup |-> acc.total_topup + topup,
                  total_fares |-> acc.total_fares + fares])
       ELSE TableRowsFrom(totals, k + 1, acc)

\* lines 222-238: the rows handed to tabulate, the "Total" row last
BuildTableRows(totals) ==
  LET body == TableRowsFrom(totals, 1,
                            [rows |-> <<>>, total_topup |-> 0, total_fares |-> 0])
  IN Append(body.rows,
            <<"Total", Format2f(body.total_topup), Format2f(body.total_fares)>>)

-----------------------------------------------------------------------------
(* Input documents                                                         *)

\* the texts of the date labels, as tokens
LabelSometime == <<"Sometime", "Last", "Week">>

LabelMon03 == <<"Monday", <<"0", "3">>, "Jun", <<"2", "0", "2", "4">>>>

LabelMon04 == <<"Monday", <<"0", "4">>, "Jun", <<"2", "0", "2", "4">>>>

LabelSat01 == <<"Saturday", <<"0", "1">>, "Jun", <<"2", "0", "2", "4">>>>

LabelFri31Jun == <<"Friday", <<"3", "1">>, "Jun", <<"2", "0", "2", "4">>>>

LabelMon10 == <<"Monday", <<"1", "0">>, "Jun", <<"2", "0", "2", "4">>>>

\* the texts of the activity fields
Text0700 == <<"0", "7", ":", "0", "0">>

Text700 == <<"7", ":", "0", "0">>

Text0815 == <<" ", "0", "8", ":", "1", "5", " ">>

TextLate == <<"l", "a", "t", "e">>

TextHome == <<" ", "H", "o", "m", "e", " ">>

TextTopUpMachine == <<"T", "o", "p", " ", "u", "p", " ", "m", "a", "c", "h", "i", "n", "e">>

TextTopUpCapital == <<"T", "o", "p", " ", "U", "p">>

TextCity == <<"C", "i", "t", "y">>

TextFare450 == <<"$", "-", "4", ".", "5", "0">>

TextFare320 == <<"-", "$", "3", ".", "2", "0">>

TextRefund300 == <<"$", "3", ".", "0", "0">>

TextTopUp2000 == <<"$", "2", "0", ".", "0", "0">>

TextReversal1000 == <<"$", "-", "1", "0", ".", "0", "0">>

TextNoAmount == <<"N", "/", "A">>

\* an activity node: what the four xpath queries of lines 120-130 return
Node(t, f, e, a) ==
  [time_element |-> t, start_point_element |-> f,
   end_point_element |-> e, fare_element |-> a]

\* the shapes of the documents of at most maxSize nodes (date containers and
\* activity nodes together): the number of activity nodes of each container
RECURSIVE ShapesOfSize(_)
ShapesOfSize(n) ==
  IF n = 0 THEN {<<>>}
  ELSE UNION { { Append(sh, k) : sh \in ShapesOfSize(n - 1 - k) } : k \in 0..(n - 1) }

Shapes(maxSize) == UNION { ShapesOfSize(n) : n \in 0..maxSize }

RECURSIVE SumSeq(_)
SumSeq(q) == IF q = <<>> THEN 0 ELSE q[1] + SumSeq(Tail(q))

\* the document of a shape: container i carries labels[i] and the next
\* shape[i] activity nodes
Assemble(shape, labels, nodes) ==
  [i \in 1..Len(shape) |->
     LET before == SumSeq(SubSeq(shape, 1, i - 1))
     IN [date_element |-> labels[i],
         activities |-> [j \in 1..shape[i] |-> nodes[before + j]]]]

June3 == [year |-> 2024, month |-> 6, day |-> 3]

May27 == [year |-> 2024, month |-> 5, day |-> 27]

\* Field-level documents: every combination of field texts, few nodes; every
\* balance.
MaxExtractSize == 2

ExtractLabels == {<<>>, <<LabelSometime>>, <<LabelMon03>>}

ExtractNodes ==
  { Node(t, f, e, a) :
      t \in {<<>>, <<Text0700>>, <<Text0815>>, <<TextLate>>},
      f \in {<<>>, <<TextHome>>, <<TextTopUpMachine>>, <<TextTopUpCapital>>},
      e \in {<<>>, <<TextCity>>},
      a \in {<<>>, <<TextFare450>>, <<TextTopUp2000>>, <<TextNoAmount>>} }

\* Ledger-level documents: every kind of date label, activities that differ
\* in time and fare.
MaxLedgerSize == 4

LedgerLabels ==
  {<<>>, <<LabelSometime>>, <<LabelMon03>>, <<LabelMon04>>, <<LabelSat01>>,
   <<LabelFri31Jun>>}

LedgerNodes ==
  { Node(<<Text0815>>, <<TextHome>>, <<TextCity>>, <<TextFare450>>),
    Node(<<Text0700>>, <<TextTopUpMachine>>, <<>>, <<TextTopUp2000>>),
    Node(<<Text700>>, <<TextHome>>, <<TextCity>>, <<TextFare320>>),
    Node(<<TextLate>>, <<TextHome>>, <<TextCity>>, <<TextFare450>>),
    Node(<<>>, <<>>, <<>>, <<>>) }

\* Aggregation-level documents: dates before, on and after the week start,
\* two of them Mondays; top-ups and fares of either sign.
MaxTotalsSize == 5

TotalsLabels == {<<LabelSat01>>, <<LabelMon03>>, <<LabelMon10>>}

TotalsNodes ==
  { Node(<<Text0815>>, <<TextHome>>, <<TextCity>>, <<TextFare450>>),
    Node(<<Text0700>>, <<TextTopUpMachine>>, <<>>, <<TextTopUp2000>>),
    Node(<<Text0700>>, <<TextHome>>, <<TextCity>>, <<TextRefund300>>),
    Node(<<Text0815>>, <<TextTopUpMachine>>, <<>>, <<TextReversal1000>>) }

\* extract_balance_info returns a non-negative amount (lines 65-69)
Balances == {0, 3000, 4550, 6000}

-----------------------------------------------------------------------------
(* main, lines 259-282, as a state machine                                 *)

InitFrom(labels, nodes, maxSize, balances, mondays) ==
  /\ \E shape \in Shapes(maxSize) :
       \E ls \in [1..Len(shape) -> labels] :
         \E ns \in [1..SumSeq(shape) -> nodes] :
           tree = Assemble(shape, ls, ns)
  /\ balance \in balances
  /\ last_monday \in mondays
  /\ pc = "start"
  /\ travel_dict = <<>>
  /\ total_top_up = 0
  /\ total_fare_charged = 0
  /\ topup_needed = 0
  /\ daily_totals = <<>>
  /\ rows = <<>>

\* line 259; an exception ends main (line 300)
ParseTravelData ==
  /\ pc = "start"
  /\ LET r == ParseTravelDataOf(tree)
     IN /\ travel_dict' = r.ledger
        /\ pc' = IF r.raised THEN "raised" ELSE "parsed"
  /\ UNCHANGED <<tree, balance, last_monday, total_top_up, total_fare_charged,
                 topup_needed, daily_totals, rows>>

\* line 265
CalculateTotals ==
  /\ pc = "parsed"
  /\ LET r == CalculateTotalsOf(travel_dict, last_monday)
     IN /\ total_top_up' = r.top_up
        /\ total_fare_charged' = r.fare_charged
        /\ pc' = IF r.raised THEN "raised" ELSE "totalled"
  /\ UNCHANGED <<tree, balance, last_monday, travel_dict, topup_needed,
                 daily_totals, rows>>

\* lines 266-269
TopupNeeded ==
  /\ pc = "totalled"
  /\ topup_needed' = TopupNeededOf(balance, total_fare_charged)
  /\ pc' = "needed"
  /\ UNCHANGED <<tree, balance, last_monday, travel_dict, total_top_up,
                 total_fare_charged, daily_totals, rows>>

\* line 279
GetDailyTotals ==
  /\ pc = "needed"
  /\ LET r == GetDailyTotalsOf(travel_dict, last_monday)
     IN /\ daily_totals' = r.totals
        /\ pc' = IF r.raised THEN "raised" ELSE "daily"
  /\ UNCHANGED <<tree, balance, last_monday, travel_dict, total_top_up,
                 total_fare_charged, topup_needed, rows>>

\* line 282
BuildTableString ==
  /\ pc = "daily"
  /\ rows' = BuildTableRows(daily_totals)
  /\ pc' = "done"
  /\ UNCHANGED <<tree, balance, last_monday, travel_dict, total_top_up,
                 total_fare_charged, topup_needed, daily_totals>>

Next ==
  \/ ParseTravelData
  \/ CalculateTotals
  \/ TopupNeeded
  \/ GetDailyTotals
  \/ BuildTableString

Init == InitFrom(LedgerLabels, LedgerNodes, MaxLedgerSize, {3000}, {June3})

Spec == Init /\ [][Next]_vars

InitExtract ==
  InitFrom(ExtractLabels, ExtractNodes, MaxExtractSize, Balances, {June3})

SpecExtract == InitExtract /\ [][Next]_vars

InitTotals ==
  InitFrom(TotalsLabels, TotalsNodes, MaxTotalsSize, {3000}, {May27, June3})

SpecTotals == InitTotals /\ [][Next]_vars

-----------------------------------------------------------------------------
(* Vocabulary of the properties                                            *)

\* parse_travel_data has just returned its ledger
Returned == pc = "parsed"

\* the label of a date container is present and parses
GroupHasDate(c) == c.date_element # <<>> /\ StrptimeDate(c.date_element[1]).ok

GroupDateOf(c) == StrptimeDate(c.date_element[1]).val

RetainedGroups == {i \in 1..Len(tree) : GroupHasDate(tree[i])}

GroupsOfDate(d) == {i \in RetainedGroups : GroupDateOf(tree[i]) = d}

\* the calendar date of the j-th ledger key
LedgerDate(j) == StrptimeDate(travel_dict[j][1]).val

LedgerActs(j) == travel_dict[j][2]

\* the activity nodes of the containers S, in document order
RECURSIVE NodesOfGroups(_, _)
NodesOfGroups(S, i) ==
  IF i > Len(tree) THEN <<>>
  ELSE (IF i \in S THEN tree[i].activities ELSE <<>>) \o NodesOfGroups(S, i + 1)

Count(seq, x) == Cardinality({i \in 1..Len(seq) : seq[i] = x})

NonEmptySubsets(S) == (SUBSET S) \ {{}}

\* ledger positions <<j, k>>: activity k of ledger entry j
Positions ==
  UNION { { <<j, k>> : k \in 1..Len(LedgerActs(j)) } : j \in 1..Len(travel_dict) }

FareAt(p) == LedgerActs(p[1])[p[2]].fare

IsTopUpAt(p) == LedgerActs(p[1])[p[2]].start_point = TopUp

InWeek(j) == DateGE(LedgerDate(j), last_monday)

RECURSIVE SumFares(_)
SumFares(P) ==
  IF P = {} THEN 0
  ELSE LET p == CHOOSE q \in P : TRUE IN FareAt(p) + SumFares(P \ {p})

RECURSIVE SumAbsFares(_)
SumAbsFares(P) ==
  IF P = {} THEN 0
  ELSE LET p == CHOOSE q \in P : TRUE IN Abs(FareAt(p)) + SumAbsFares(P \ {p})

WeekTopUps == {p \in Positions : InWeek(p[1]) /\ IsTopUpAt(p)}

WeekFares == {p \in Positions : InWeek(p[1]) /\ ~IsTopUpAt(p)}

WeekdayOfEntry(j) == WeekdayNames[Weekday(LedgerDate(j)) + 1]

-----------------------------------------------------------------------------
(* Properties                                                              *)

\* C1: parse_travel_data never raises: whatever the date label, time, origin,
\* destination and fare texts are, the call returns a ledger.
C1_NeverRaises == pc # "raised"

\* C2: no extracted activity is lost: the ledger entry of a date holds one
\* activity per activity node of every retained container carrying that date.
C2_NoActivityLost ==
  Returned =>
    \A j \in 1..Len(travel_dict) :
      Len(LedgerActs(j))
        = Len(NodesOfGroups(GroupsOfDate(LedgerDate(j)), 1))

\* C3: topup_needed is max(0, 50 - (balance - total_fare_charged)): it is the
\* larger of 0 and that difference, never negative, and 0 exactly when
\* balance - total_fare_charged >= 50.
C3_TopupNeeded ==
  pc = "needed" =>
    LET shortfall == 5000 - (balance - total_fare_charged)
    IN /\ topup_needed \in {0, shortfall}
       /\ topup_needed >= 0
       /\ topup_needed >= shortfall
       /\ (topup_needed = 0) <=> (balance - total_fare_charged >= 5000)

C3_Witness ==
  /\ pc = "needed"
  /\ balance = 3000
  /\ total_fare_charged = -450
  /\ topup_needed = 1550

\* C4: total_top_up is the sum of the raw fares of the "Top Up" activities on
\* dates >= the week start (that date included), total_fare_charged the sum
\* of the raw fares of all other activities on those dates; activities on
\* earlier dates count in neither.
C4_WeeklyTotals ==
  pc = "totalled" =>
    /\ total_top_up = SumFares(WeekTopUps)
    /\ total_fare_charged = SumFares(WeekFares)

C4_Witness ==
  /\ pc = "totalled"
  /\ \E j \in 1..Len(travel_dict) :
       LedgerDate(j) = last_monday /\ Len(LedgerActs(j)) >= 2
  /\ \E j \in 1..Len(travel_dict) :
       ~InWeek(j) /\ \E k \in 1..Len(LedgerActs(j)) : LedgerActs(j)[k].fare # 0
  /\ total_top_up = 2000
  /\ total_fare_charged = -450

\* C5: get_daily_totals has exactly the weekday names of the ledger dates >=
\* the week start; a weekday's topup is the sum of the raw fares of its
\* "Top Up" activities, its fares the sum of the absolute values of the fares
\* of its other activities, so fares is never negative.
C5_DailyTotals ==
  pc = "daily" =>
    /\ DictKeys(daily_totals)
         = {WeekdayOfEntry(j) : j \in {i \in 1..Len(travel_dict) : InWeek(i)}}
    /\ \A w \in DictKeys(daily_totals) :
         /\ DictGet(daily_totals, w).topup
              = SumFares({p \in WeekTopUps : WeekdayOfEntry(p[1]) = w})
         /\ DictGet(daily_totals, w).fares
              = SumAbsFares({p \in WeekFares : WeekdayOfEntry(p[1]) = w})
         /\ DictGet(daily_totals, w).fares >= 0

C5_Witness ==
  /\ pc = "daily"
  /\ \E i, j \in 1..Len(travel_dict) :
       /\ i # j /\ InWeek(i) /\ InWeek(j)
       /\ WeekdayOfEntry(i) = WeekdayOfEntry(j)
       /\ \E k \in 1..Len(LedgerActs(i)) :
            ~IsTopUpAt(<<i, k>>) /\ FareAt(<<i, k>>) < 0
       /\ \E k \in 1..Len(LedgerActs(j)) : IsTopUpAt(<<j, k>>)
  /\ \E j \in 1..Len(travel_dict) : ~InWeek(j)

\* C6: every ledger entry is non-decreasing in time of day, and it is a stable
\* arrangement of activities of its date: activities of equal time keep the
\* order their nodes have in the document.
C6_SortedStable ==
  Returned =>
    \A j \in 1..Len(travel_dict) :
      LET acts == LedgerActs(j)
      IN /\ \A a, b \in 1..Len(acts) :
              a < b => TimeKey(acts[a]) <= TimeKey(acts[b])
         /\ \E S \in NonEmptySubsets(GroupsOfDate(LedgerDate(j))) :
              LET doc == ExtractAll(NodesOfGroups(S, 1)).acts
              IN \A a \in 1..Len(acts) :
                   SelectSeq(acts, LAMBDA x : TimeKey(x) = TimeKey(acts[a]))
                     = SelectSeq(doc, LAMBDA x : TimeKey(x) = TimeKey(acts[a]))

C6_Witness ==
  /\ Returned
  /\ \E j \in 1..Len(travel_dict) :
       LET acts == LedgerActs(j)
       IN /\ Len(acts) = 3
          /\ TimeKey(acts[1]) = TimeKey(acts[2])
          /\ acts[1] # acts[2]
          /\ TimeKey(acts[2]) < TimeKey(acts[3])
          /\ \E i \in GroupsOfDate(LedgerDate(j)) :
               /\ Len(tree[i].activities) = 3
               /\ ExtractActivity(tree[i].activities[1]).activity = acts[3]

\* C7: the ledger keys are in strictly descending date order, so each date is
\* a key at most once, whatever the order of the containers in the document.
C7_DatesDescending ==
  Returned =>
    \A j, k \in 1..Len(travel_dict) :
      j < k => DateLT(LedgerDate(k), LedgerDate(j))

C7_Witness ==
  /\ Returned
  /\ Len(travel_dict) >= 2
  /\ \E i, k \in RetainedGroups :
       i < k /\ DateLT(GroupDateOf(tree[i]), GroupDateOf(tree[k]))
  /\ \E i, k \in RetainedGroups : i < k /\ GroupDateOf(tree[i]) = GroupDateOf(tree[k])

\* the origin and destination C8 states for an activity node
ExpectedPoints(node) ==
  LET origin == IF node.start_point_element = <<>> THEN Unknown
                ELSE Strip(node.start_point_element[1])
      destination == IF node.end_point_element = <<>> THEN Unknown
                     ELSE Strip(node.end_point_element[1])
  IN IF Contains(origin, TopUpNeedle)
     THEN <<TopUp, OpalTravelApp>>
     ELSE <<origin, destination>>

\* C8: an activity whose raw origin contains "Top up" is in the ledger with
\* start_point "Top Up" and end_point "Opal Travel App", whatever its
\* destination; any other activity keeps its stripped labels, or "Unknown".
C8_TopUpNormalized ==
  Returned =>
    \A j \in 1..Len(travel_dict) :
      \E S \in NonEmptySubsets(GroupsOfDate(LedgerDate(j))) :
        LET nodes == NodesOfGroups(S, 1)
            want == [n \in 1..Len(nodes) |-> ExpectedPoints(nodes[n])]
            got == [k \in 1..Len(LedgerActs(j)) |->
                      <<LedgerActs(j)[k].start_point, LedgerActs(j)[k].end_point>>]
        IN /\ Len(want) = Len(got)
           /\ \A n \in 1..Len(want) : Count(got, want[n]) = Count(want, want[n])

C8_Witness ==
  /\ Returned
  /\ \E i \in RetainedGroups :
       \E n \in 1..Len(tree[i].activities) :
         /\ tree[i].activities[n].start_point_element = <<TextTopUpMachine>>
         /\ tree[i].activities[n].end_point_element = <<TextCity>>
  /\ \E j \in 1..Len(travel_dict) :
       \E k \in 1..Len(LedgerActs(j)) :
         /\ LedgerActs(j)[k].start_point = TopUp
         /\ LedgerActs(j)[k].end_point = OpalTravelApp

\* C9: the ledger dates are exactly the dates of the containers whose label is
\* present and parses; a container with a missing or unparseable label adds
\* nothing, raises nothing and leaves the result for the others unchanged.
C9_MalformedGroupsDropped ==
  pc \in {"parsed", "raised"} =>
    LET others == ParseTravelDataOf(SelectSeq(tree, GroupHasDate))
    IN /\ others.raised <=> (pc = "raised")
       /\ Returned =>
            /\ travel_dict = others.ledger
            /\ {LedgerDate(j) : j \in 1..Len(travel_dict)}
                 = {GroupDateOf(tree[i]) : i \in RetainedGroups}

C9_Witness ==
  /\ Returned
  /\ Len(tree) = 3
  /\ tree[1].date_element = <<>> /\ Len(tree[1].activities) = 1
  /\ tree[2].date_element = <<LabelMon03>>
  /\ tree[3].date_element = <<LabelFri31Jun>>
  /\ Len(travel_dict) = 1

\* C10: the Total row of the table agrees with calculate_totals: its top-up
\* is total_top_up, its fares the sum of the absolute values of the week's
\* other fares, which is >= |total_fare_charged| and equal to it exactly when
\* those fares all have one sign.
C10_TableAgreesWithTotals ==
  pc = "done" =>
    LET spend == SumAbsFares(WeekFares)
    IN /\ rows[Len(rows)] = <<"Total", Format2f(total_top_up), Format2f(spend)>>
       /\ spend >= Abs(total_fare_charged)
       /\ (spend = Abs(total_fare_charged))
            <=> \/ \A p \in WeekFares : FareAt(p) >= 0
                \/ \A p \in WeekFares : FareAt(p) <= 0

C10_Witness ==
  /\ pc = "done"
  /\ Len(rows) = 2
  /\ \E i, j \in 1..Len(travel_dict) :
       i # j /\ InWeek(i) /\ InWeek(j) /\ WeekdayOfEntry(i) = WeekdayOfEntry(j)
  /\ \E p, q \in WeekFares : FareAt(p) < 0 /\ FareAt(q) > 0
  /\ total_top_up # 0

====
